---- MODULE Spec2Model ----
(***************************************************************************)
(* Model of ModelHandler (backend/flow/execution/handlers/ModelHandler):   *)
(* callModel / generateCompletion (one completion round trip folded into   *)
(* the transcript) and processToolCalls (sequential tool dispatch).        *)
(*                                                                         *)
(* Strings that the code inspects character by character (tool names,      *)
(* argument strings, raw completion content) are sequences of one-char     *)
(* strings; strings that the code only builds (message contents, error     *)
(* messages) are TLA+ strings built with \o.                               *)
(***************************************************************************)
EXTENDS Integers, Sequences, FiniteSets, TLC

(***************************************************************************)
(* Bounds of the model.                                                    *)
(***************************************************************************)
\* longest sequence of requested tool calls handed to processToolCalls
MaxCalls == 2
\* longest input transcript handed to callModel
MaxTranscript == 2
\* longest tool_calls sequence carried by a completion response
MaxRespCalls == 1
\* longest tool list handed to callModel
MaxTools == 2

(***************************************************************************)
(* Character sequences.                                                    *)
(***************************************************************************)
RECURSIVE Flatten(_)
\* the TLA+ string spelled by a sequence of characters
Flatten(cs) == IF cs = <<>> THEN "" ELSE Head(cs) \o Flatten(Tail(cs))

\* String.prototype.startsWith
StartsWith(s, p) ==
  /\ Len(p) <= Len(s)
  /\ SubSeq(s, 1, Len(p)) = p

\* does separator d occur in s at position i (1-based)?
OccursAt(s, d, i) ==
  /\ i + Len(d) - 1 <= Len(s)
  /\ SubSeq(s, i, i + Len(d) - 1) = d

RECURSIVE SplitFrom(_, _, _, _, _)
\* left-to-right scan of String.prototype.split with a non-empty separator:
\* start is where the current segment begins, i the scanning position
SplitFrom(s, d, start, i, acc) ==
  IF i > Len(s)
  THEN Append(acc, SubSeq(s, start, Len(s)))
  ELSE IF OccursAt(s, d, i)
       THEN SplitFrom(s, d, i + Len(d), i + Len(d),
                      Append(acc, SubSeq(s, start, i - 1)))
       ELSE SplitFrom(s, d, start, i + 1, acc)

\* name.split(d)
Split(s, d) == SplitFrom(s, d, 1, 1, <<>>)

(***************************************************************************)
(* JSON values, JSON.parse and JSON.stringify.                             *)
(* A value is a tagged record; an object is the sequence of its <<key,     *)
(* value>> members in insertion order.  Numbers are the integers; the      *)
(* fraction and exponent parts of the JSON grammar are outside the         *)
(* argument strings the model draws.                                       *)
(***************************************************************************)
JNull == [t |-> "null"]
JBool(b) == [t |-> "bool", b |-> b]
JNum(n) == [t |-> "num", n |-> n]
JStr(cs) == [t |-> "str", s |-> cs]
JArr(es) == [t |-> "arr", es |-> es]
JObj(kv) == [t |-> "obj", kv |-> kv]

\* the object literal {}
EmptyObject == JObj(<<>>)

WhiteSpace == {" ", "\n", "\t", "\r"}
Digits == {"0", "1", "2", "3", "4", "5", "6", "7", "8", "9"}
DigitVal == "0" :> 0 @@ "1" :> 1 @@ "2" :> 2 @@ "3" :> 3 @@ "4" :> 4 @@
            "5" :> 5 @@ "6" :> 6 @@ "7" :> 7 @@ "8" :> 8 @@ "9" :> 9

\* result of a parsing step: ok, the value read, the position after it
POk(v, i) == [ok |-> TRUE, v |-> v, i |-> i]
PFail(i) == [ok |-> FALSE, v |-> JNull, i |-> i]

RECURSIVE SkipWs(_, _)
SkipWs(s, i) ==
  IF i <= Len(s) /\ s[i] \in WhiteSpace THEN SkipWs(s, i + 1) ELSE i

RECURSIVE ScanString(_, _, _)
\* characters of a string literal after its opening quote
ScanString(s, i, acc) ==
  IF i > Len(s) THEN PFail(i)
  ELSE IF s[i] = "\"" THEN POk(JStr(acc), i + 1)
  ELSE IF s[i] = "\\"
       THEN IF i + 1 > Len(s) THEN PFail(i + 1)
            ELSE IF s[i + 1] \in {"\"", "\\", "/"}
                 THEN ScanString(s, i + 2, Append(acc, s[i + 1]))
            ELSE IF s[i + 1] = "n" THEN ScanString(s, i + 2, Append(acc, "\n"))
            ELSE IF s[i + 1] = "t" THEN ScanString(s, i + 2, Append(acc, "\t"))
            ELSE IF s[i + 1] = "r" THEN ScanString(s, i + 2, Append(acc, "\r"))
            ELSE PFail(i + 1)
  ELSE IF s[i] \in {"\n", "\t", "\r"} THEN PFail(i)
  ELSE ScanString(s, i + 1, Append(acc, s[i]))

RECURSIVE ScanDigits(_, _, _)
ScanDigits(s, i, n) ==
  IF i <= Len(s) /\ s[i] \in Digits
  THEN ScanDigits(s, i + 1, 10 * n + DigitVal[s[i]])
  ELSE POk(JNum(n), i)

\* a number: optional minus, then digits without a leading zero
ScanNumber(s, i) ==
  LET neg == s[i] = "-"
      j == IF neg THEN i + 1 ELSE i
  IN IF j > Len(s) \/ s[j] \notin Digits THEN PFail(j)
     ELSE IF s[j] = "0"
          THEN IF j + 1 <= Len(s) /\ s[j + 1] \in Digits
               THEN PFail(j + 1) ELSE POk(JNum(0), j + 1)
     ELSE LET r == ScanDigits(s, j, 0)
          IN IF neg THEN POk(JNum(0 - r.v.n), r.i) ELSE r

\* one of the literals true, false, null
ScanLiteral(s, i, lit, v) ==
  IF OccursAt(s, lit, i) THEN POk(v, i + Len(lit)) ELSE PFail(i)

\* obj.key = v on an object under construction: a repeated key keeps its
\* first position and takes the last value
SetMember(kv, k, v) ==
  IF \E n \in 1..Len(kv) : kv[n][1] = k
  THEN [n \in 1..Len(kv) |-> IF kv[n][1] = k THEN <<k, v>> ELSE kv[n]]
  ELSE Append(kv, <<k, v>>)

RECURSIVE ParseValue(_, _)
RECURSIVE ParseMembers(_, _, _)
RECURSIVE ParseElements(_, _, _)

\* after a member at e: ',' goes on, '}' closes the object
MemberNext(s, e, kv) ==
  IF e > Len(s) THEN PFail(e)
  ELSE IF s[e] = "," THEN ParseMembers(s, e + 1, kv)
  ELSE IF s[e] = "}" THEN POk(JObj(kv), e + 1)
  ELSE PFail(e)

\* the value v of the member named key has been read
MemberEnd(s, key, v, kv) ==
  IF ~v.ok THEN PFail(v.i)
  ELSE MemberNext(s, SkipWs(s, v.i), SetMember(kv, key, v.v))

\* the key k of a member has been read: ':' and the value follow at c
MemberValue(s, k, c, kv) ==
  IF ~k.ok THEN PFail(k.i)
  ELSE IF c > Len(s) \/ s[c] # ":" THEN PFail(c)
  ELSE MemberEnd(s, k.v.s, ParseValue(s, c + 1), kv)

\* the key k of a member has been read
MemberKey(s, k, kv) == MemberValue(s, k, SkipWs(s, k.i), kv)

\* a member starts at j with the opening quote of its key
MemberAt(s, j, kv) ==
  IF j > Len(s) \/ s[j] # "\"" THEN PFail(j)
  ELSE MemberKey(s, ScanString(s, j + 1, <<>>), kv)

\* members of an object after '{' or after a ','
ParseMembers(s, i, kv) == MemberAt(s, SkipWs(s, i), kv)

\* after an element at e: ',' goes on, ']' closes the array
ElementNext(s, e, es) ==
  IF e > Len(s) THEN PFail(e)
  ELSE IF s[e] = "," THEN ParseElements(s, e + 1, es)
  ELSE IF s[e] = "]" THEN POk(JArr(es), e + 1)
  ELSE PFail(e)

\* the element v has been read
ElementEnd(s, v, es) ==
  IF ~v.ok THEN PFail(v.i)
  ELSE ElementNext(s, SkipWs(s, v.i), Append(es, v.v))

\* elements of an array after '[' or after a ','
ParseElements(s, i, es) == ElementEnd(s, ParseValue(s, i), es)

\* an object whose '{' is at j, c being the first position after it that is
\* not white space
ObjectAt(s, j, c) ==
  IF c <= Len(s) /\ s[c] = "}" THEN POk(EmptyObject, c + 1)
  ELSE ParseMembers(s, j + 1, <<>>)

\* an array whose '[' is at j, likewise
ArrayAt(s, j, c) ==
  IF c <= Len(s) /\ s[c] = "]" THEN POk(JArr(<<>>), c + 1)
  ELSE ParseElements(s, j + 1, <<>>)

\* the value that starts at j, which is not white space
ValueAt(s, j) ==
  IF j > Len(s) THEN PFail(j)
  ELSE IF s[j] = "{" THEN ObjectAt(s, j, SkipWs(s, j + 1))
  ELSE IF s[j] = "[" THEN ArrayAt(s, j, SkipWs(s, j + 1))
  ELSE IF s[j] = "\"" THEN ScanString(s, j + 1, <<>>)
  ELSE IF s[j] = "-" \/ s[j] \in Digits THEN ScanNumber(s, j)
  ELSE IF s[j] = "t" THEN ScanLiteral(s, j, <<"t", "r", "u", "e">>, JBool(TRUE))
  ELSE IF s[j] = "f" THEN ScanLiteral(s, j, <<"f", "a", "l", "s", "e">>, JBool(FALSE))
  ELSE IF s[j] = "n" THEN ScanLiteral(s, j, <<"n", "u", "l", "l">>, JNull)
  ELSE PFail(j)

ParseValue(s, i) == ValueAt(s, SkipWs(s, i))

\* only white space may follow the value read up to e
EndOfInput(s, r, e) ==
  IF ~r.ok THEN r
  ELSE IF e = Len(s) + 1 THEN r
  ELSE PFail(e)

\* the value r has been read from the start of s
WholeInput(s, r) == EndOfInput(s, r, IF r.ok THEN SkipWs(s, r.i) ELSE r.i)

\* JSON.parse(s): [ok |-> TRUE, v |-> value] or, when it throws a
\* SyntaxError, [ok |-> FALSE, i |-> position of the offending character]
JSONParse(s) == WholeInput(s, ParseValue(s, 1))

\* message of the SyntaxError thrown at position i of s
SyntaxErrorAt(s, i) ==
  IF i > Len(s)
  THEN "Unexpected end of JSON input"
  ELSE "Unexpected token " \o s[i] \o " in JSON at position " \o ToString(i - 1)

\* message of the SyntaxError thrown by JSON.parse(s)
SyntaxErrorMessage(s) == SyntaxErrorAt(s, JSONParse(s).i)

RECURSIVE QuoteChars(_)
\* the characters of a string as JSON.stringify escapes them
QuoteChars(cs) ==
  IF cs = <<>> THEN ""
  ELSE (CASE Head(cs) = "\"" -> "\\\""
          [] Head(cs) = "\\" -> "\\\\"
          [] Head(cs) = "\n" -> "\\n"
          [] Head(cs) = "\t" -> "\\t"
          [] Head(cs) = "\r" -> "\\r"
          [] OTHER -> Head(cs)) \o QuoteChars(Tail(cs))

Quote(cs) == "\"" \o QuoteChars(cs) \o "\""

RECURSIVE Stringify(_)
RECURSIVE StringifyMembers(_)
RECURSIVE StringifyElements(_)

StringifyMembers(kv) ==
  IF kv = <<>> THEN ""
  ELSE Quote(kv[1][1]) \o ":" \o Stringify(kv[1][2])
         \o (IF Len(kv) > 1 THEN "," \o StringifyMembers(Tail(kv)) ELSE "")

StringifyElements(es) ==
  IF es = <<>> THEN ""
  ELSE Stringify(es[1])
         \o (IF Len(es) > 1 THEN "," \o StringifyElements(Tail(es)) ELSE "")

\* JSON.stringify(v) without indentation
Stringify(v) ==
  CASE v.t = "null" -> "null"
    [] v.t = "bool" -> IF v.b THEN "true" ELSE "false"
    [] v.t = "num" -> ToString(v.n)
    [] v.t = "str" -> Quote(v.s)
    [] v.t = "arr" -> "[" \o StringifyElements(v.es) \o "]"
    [] v.t = "obj" -> "{" \o StringifyMembers(v.kv) \o "}"

(***************************************************************************)
(* Values that are optional in the source (undefined, null, absent key).   *)
(***************************************************************************)
Undefined == [defined |-> FALSE]
Some(v) == [defined |-> TRUE, value |-> v]

(***************************************************************************)
(* Tool names and argument strings the requested calls are drawn from.     *)
(***************************************************************************)
\* 'handoff'
HANDOFF == <<"h", "a", "n", "d", "o", "f", "f">>
\* 'handoff_to_'
HANDOFF_TO == HANDOFF \o <<"_", "t", "o", "_">>
\* '_-_-_'
DELIMITER == <<"_", "-", "_", "-", "_">>

SRV == <<"s", "r", "v">>
GET == <<"g", "e", "t">>

\* handoff, handoff_to_b, _-_-_srv_-_-_get, x_-_-_srv_-_-_get (three
\* segments, the first one not empty), _-_-_srv_-_-_get_-_-_x (four
\* segments), handoff_x (one segment)
ToolNames ==
  { HANDOFF,
    HANDOFF_TO \o <<"b">>,
    DELIMITER \o SRV \o DELIMITER \o GET,
    <<"x">> \o DELIMITER \o SRV \o DELIMITER \o GET,
    DELIMITER \o SRV \o DELIMITER \o GET \o DELIMITER \o <<"x">>,
    HANDOFF \o <<"_", "x">> }

\* {"x":1}   { "q" : "x" }   {}   {"x":
ArgStrings ==
  { <<"{", "\"", "x", "\"", ":", "1", "}">>,
    <<"{", " ", "\"", "q", "\"", " ", ":", " ", "\"", "x", "\"", " ", "}">>,
    <<"{", "}">>,
    <<"{", "\"", "x", "\"", ":">> }

\* id of the call requested at position i of a response
CallId(i) == "call_" \o ToString(i)

\* OpenAI.ChatCompletionMessageToolCall
ToolCall(id, name, arguments) ==
  [id |-> id, type |-> "function",
   function |-> [name |-> name, arguments |-> arguments]]

\* the sequences of n requested calls, ids in request order
CallSeqsOfLen(n) ==
  { [i \in 1..n |-> ToolCall(CallId(i), f[i][1], f[i][2])] :
      f \in [1..n -> ToolNames \X ArgStrings] }

\* input.toolCalls of processToolCalls: absent, or a sequence of calls
ToolCallInputs ==
  {Undefined} \cup
  { Some(cs) : cs \in UNION { CallSeqsOfLen(n) : n \in 0..MaxCalls } }

(***************************************************************************)
(* mcpService.callTool: what one invocation can do.                        *)
(***************************************************************************)
\* {"hits":3}
HitsData == JObj(<< <<(<<"h", "i", "t", "s">>), JNum(3)>> >>)

McpOutcomes ==
  { [kind |-> "success", data |-> HitsData, error |-> ""],
    [kind |-> "failure", data |-> JNull, error |-> "Tool not found"],
    [kind |-> "throwError", data |-> JNull, error |-> "connect ECONNREFUSED"],
    [kind |-> "throwOther", data |-> JNull, error |-> "timeout"] }

(***************************************************************************)
(* processToolCalls, one iteration of the loop over the requested calls.   *)
(***************************************************************************)
\* a thrown value: an Error instance with a message, or something else
ThrownError(message) == [isError |-> TRUE, message |-> message]
ThrownOther(v) == [isError |-> FALSE, message |-> v]

\* variant: only the exact name is a handoff
IsHandoffAs(name) == name = HANDOFF
\* name.startsWith('handoff_to_') || name === 'handoff'
IsHandoff(name) == StartsWith(name, HANDOFF_TO) \/ name = HANDOFF

\* variant: more than three segments pass
ValidPartsAs(parts) == Len(parts) >= 3
\* parts.length === 3; any other length fails the call
ValidParts(parts) == Len(parts) = 3

\* result.success ? JSON.stringify(result.data) : `Error: ${result.error}`
McpResultContent(out) ==
  IF out.kind = "success" THEN Stringify(out.data)
  ELSE "Error: " \o out.error

\* JSON.stringify({ handoff: true, args })
HandoffContent(args) ==
  Stringify(JObj(<< <<HANDOFF, JBool(TRUE)>>,
                    <<(<<"a", "r", "g", "s">>), args>> >>))

\* outcome of a try body: it completed and recorded content and args,
\* or it threw
Completed(content, args, call) ==
  [thrown |-> FALSE, content |-> content, args |-> args, call |-> call]
Threw(err, call) ==
  [thrown |-> TRUE, err |-> err, call |-> call]

\* variant: the segments are taken one position too early
McpCallAs(parts, args) ==
  <<[serverName |-> parts[1], toolName |-> parts[2], args |-> args]>>
\* the (serverName, toolName, args) of an mcpService.callTool invocation:
\* serverName = parts[1] and toolName = parts[2] of the 0-based array
McpCall(parts, args) ==
  <<[serverName |-> parts[2], toolName |-> parts[3], args |-> args]>>

\* the body of the per-call try block once JSON.parse has returned parsed
\* and name.split has returned parts; out is what mcpService.callTool does
\* if it is invoked
TryBodyWith(tc, parsed, parts, out) ==
  IF ~parsed.ok
  THEN Threw(ThrownError(SyntaxErrorAt(tc.function.arguments, parsed.i)), <<>>)
  ELSE IF IsHandoff(tc.function.name)
  THEN Completed(HandoffContent(parsed.v), parsed.v, <<>>)
  ELSE IF ~ValidParts(parts)
  THEN Threw(ThrownError("Invalid tool name format: "
                           \o Flatten(tc.function.name)), <<>>)
  ELSE IF out.kind \in {"success", "failure"}
  THEN Completed(McpResultContent(out), parsed.v, McpCall(parts, parsed.v))
  ELSE IF out.kind = "throwError"
  THEN Threw(ThrownError(out.error), McpCall(parts, parsed.v))
  ELSE Threw(ThrownOther(out.error), McpCall(parts, parsed.v))

\* the body of the per-call try block for requested call tc
TryBody(tc, out) ==
  TryBodyWith(tc, JSONParse(tc.function.arguments),
              Split(tc.function.name, DELIMITER), out)

\* variant: the message without the 'Error: ' prefix
CatchMessageAs(err) == IF err.isError THEN err.message ELSE "Unknown error"
\* `Error: ${error instanceof Error ? error.message : 'Unknown error'}`
CatchMessage(err) ==
  "Error: " \o (IF err.isError THEN err.message ELSE "Unknown error")

\* what handling one requested call leaves behind: the content and args it
\* records and the service calls it made, or the exception that escapes
Handled(content, args, call) ==
  [escaped |-> FALSE, content |-> content, args |-> args, call |-> call]
Escaped(err, call) ==
  [escaped |-> TRUE, err |-> err, call |-> call]

\* the per-call catch block applied to the outcome b of the try body
CatchBlock(b) ==
  IF b.thrown
  THEN Handled(CatchMessage(b.err), EmptyObject, b.call)
  ELSE Handled(b.content, b.args, b.call)

\* variant: JSON.parse sits before the per-call try block
ParseOutside(parsed, b) ==
  IF ~parsed.ok THEN Escaped(b.err, b.call) ELSE CatchBlock(b)
HandleToolCallParseOutside(tc, out) ==
  ParseOutside(JSONParse(tc.function.arguments), TryBody(tc, out))

\* the per-call try/catch
HandleToolCall(tc, out) == CatchBlock(TryBody(tc, out))

\* variant: tool_call_id takes the generated id
ToolMessageAs(uuid, tc, content, now) ==
  [id |-> uuid, role |-> "tool", tool_call_id |-> uuid,
   content |-> content, timestamp |-> now]
\* the tool-role message pushed for call tc
ToolMessage(uuid, tc, content, now) ==
  [id |-> uuid, role |-> "tool", tool_call_id |-> tc.id,
   content |-> content, timestamp |-> now]

\* the processed-call record pushed for call tc
ProcessedCall(tc, args, result) ==
  [name |-> tc.function.name, args |-> args, id |-> tc.id, result |-> result]

\* uuidv4(): the n-th identifier generated
Uuid(n) == "uuid-" \o ToString(n)

\* createToolError / createModelError
ExecutionError(type, message) == [type |-> type, message |-> message]

Failure(error) == [success |-> FALSE, error |-> error]
Success(value) == [success |-> TRUE, value |-> value]

\* !toolCalls || toolCalls.length === 0
IsEmptyInput(input) == ~input.defined \/ Len(input.value) = 0

\* variant: an empty input is reported as a failure
EmptyResultAs ==
  [success |-> FALSE,
   error |-> [type |-> "tool_processing_failed", message |-> "No tool calls"]]
\* the result returned for an empty input
EmptyResult ==
  Success([toolCallMessages |-> <<>>, processedToolCalls |-> <<>>])

\* the result no operation has produced yet
NoResult == [pending |-> TRUE]

\* message of the overall failure:
\* error instanceof Error ? error.message : String(error)
OuterCatchMessage(err) == err.message

\* the mcpService.callTool invocations made while handling the call at
\* position i, each with what the service did
Invocations(call, i, out) ==
  [n \in 1..Len(call) |-> [request |-> call[n], callIndex |-> i, outcome |-> out]]

(***************************************************************************)
(* callModel and generateCompletion: inputs and collaborators.             *)
(***************************************************************************)
\* messages an input transcript is made of
InputMessages ==
  { [id |-> "m-user", role |-> "user", content |-> "hello", timestamp |-> 10],
    [id |-> "m-asst", role |-> "assistant", content |-> "## Agent says:\n\nhi",
     tool_calls |-> Undefined, timestamp |-> 11, processNodeId |-> "node-0"] }

Transcripts ==
  UNION { [1..n -> InputMessages] : n \in 0..MaxTranscript }

NodeNames == {"Agent"}

\* model descriptors of the catalog: one with a display name, one without
Models ==
  { [name |-> "gpt-4o", displayName |-> "GPT"],
    [name |-> "llama", displayName |-> ""] }

\* modelService.getModel: it throws, returns nothing, or returns a model
LookupOutcomes ==
  { [kind |-> "thrown"], [kind |-> "null"] } \cup
  { [kind |-> "model", model |-> m] : m \in Models }

\* modelService.resolveAndDecryptApiKey: it throws, returns nothing, or a key
KeyOutcomes ==
  { [kind |-> "thrown"], [kind |-> "null"], [kind |-> "key", key |-> "sk-1"] }

\* raw contents of a first choice:
\* hi | (empty) | ## A says:\n\nhi | ## A SAYS: \n\n | ## A says:\nhi |
\* ## says:\n\nhi | ## A\nsays:\n\nhi
RawContents ==
  { <<"h", "i">>,
    <<>>,
    <<"#", "#", " ", "A", " ", "s", "a", "y", "s", ":", "\n", "\n", "h", "i">>,
    <<"#", "#", " ", "A", " ", "S", "A", "Y", "S", ":", " ", "\n", "\n">>,
    <<"#", "#", " ", "A", " ", "s", "a", "y", "s", ":", "\n", "h", "i">>,
    <<"#", "#", " ", "s", "a", "y", "s", ":", "\n", "\n", "h", "i">>,
    <<"#", "#", " ", "A", "\n", "s", "a", "y", "s", ":", "\n", "\n", "h", "i">> }

\* tool calls a completion response requests
RespToolNames ==
  { HANDOFF_TO \o <<"b">>,
    DELIMITER \o SRV \o DELIMITER \o GET,
    DELIMITER \o SRV \o DELIMITER \o GET \o DELIMITER \o <<"x">> }
RespArgStrings ==
  { <<"{", "\"", "x", "\"", ":", "1", "}">>,
    <<"{", "\"", "x", "\"", ":">> }

RespCallSeqsOfLen(n) ==
  { [i \in 1..n |-> ToolCall(CallId(i), f[i][1], f[i][2])] :
      f \in [1..n -> RespToolNames \X RespArgStrings] }

\* message.tool_calls of a first choice: absent, or a sequence of calls
RespToolCalls ==
  {Undefined} \cup
  { Some(cs) : cs \in UNION { RespCallSeqsOfLen(n) : n \in 0..MaxRespCalls } }

\* first choices: content is a string or null
Choices ==
  { [message |-> [content |-> c, tool_calls |-> tcs]] :
      c \in {Undefined} \cup { Some(r) : r \in RawContents },
      tcs \in RespToolCalls }

\* {"error":{"message":"quota"}}
RawQuota ==
  <<"{", "\"", "e", "r", "r", "o", "r", "\"", ":", "{", "\"", "m", "e", "s",
    "s", "a", "g", "e", "\"", ":", "\"", "q", "u", "o", "t", "a", "\"", "}", "}">>

\* error objects embedded in a response body: a message, and possibly
\* metadata.raw
EmbeddedErrors ==
  { [message |-> "Rate limited", raw |-> Undefined],
    [message |-> "", raw |-> Undefined],
    [message |-> "Provider error", raw |-> Some(RawQuota)],
    [message |-> "Provider error", raw |-> Some(<<"{">>)] }

\* one first choice used where the choice itself does not matter
PlainChoice ==
  [message |-> [content |-> Some(<<"h", "i">>), tool_calls |-> Undefined]]

\* response bodies of the completion endpoint
Bodies ==
  { [error |-> Undefined, choices |-> Some(<<c>>)] : c \in Choices } \cup
  { [error |-> Undefined, choices |-> Undefined],
    [error |-> Undefined, choices |-> Some(<<>>)] } \cup
  { [error |-> Some(e), choices |-> cs] :
      e \in EmbeddedErrors, cs \in {Undefined, Some(<<PlainChoice>>)} }

\* openai.chat.completions.create: it throws an APIError, throws something
\* else, or resolves to a body
RequestOutcomes ==
  { [kind |-> "apiError", message |-> "401 Unauthorized"],
    [kind |-> "otherError", message |-> "socket hang up"] } \cup
  { [kind |-> "body", body |-> b] : b \in Bodies }

(***************************************************************************)
(* callModel and generateCompletion: the computations.                     *)
(***************************************************************************)
\* model.displayName || model.name
DisplayNameOf(model) ==
  IF model.displayName # "" THEN model.displayName ELSE model.name

\* characters the class . of a regular expression does not match
LineTerminators == {"\n", "\r"}
\* characters of the class \s among those the model draws
RegexSpace == {" ", "\t", "\n", "\r"}

\* says: at position i, letters compared without case
SaysAt(c, i) ==
  /\ i + 4 <= Len(c)
  /\ c[i] \in {"s", "S"}
  /\ c[i + 1] \in {"a", "A"}
  /\ c[i + 2] \in {"y", "Y"}
  /\ c[i + 3] \in {"s", "S"}
  /\ c[i + 4] = ":"

\* /^## .+says:\s*\n\n/i.test(c): '## ', then characters 4..k of one line,
\* then says:, then white space up to two line feeds at j, j+1
HasHeadingPattern(c) ==
  /\ StartsWith(c, <<"#", "#", " ">>)
  /\ \E k \in 4..Len(c) :
       /\ \A n \in 4..k : c[n] \notin LineTerminators
       /\ SaysAt(c, k + 1)
       /\ \E j \in (k + 6)..(Len(c) - 1) :
            /\ \A n \in (k + 6)..(j - 1) : c[n] \in RegexSpace
            /\ c[j] = "\n"
            /\ c[j + 1] = "\n"

\* variant: the heading pattern is not consulted
PrefixedContentAs(node, display, technical, content) ==
  IF display # ""
  THEN "## " \o node \o " - " \o display \o " (" \o technical \o ") says:\n\n"
         \o Flatten(content)
  ELSE Flatten(content)
\* modelDisplayName && !hasHeadingPattern ? `## ... says:\n\n${content}` : content
PrefixedContent(node, display, technical, content) ==
  IF display # "" /\ ~HasHeadingPattern(content)
  THEN "## " \o node \o " - " \o display \o " (" \o technical \o ") says:\n\n"
         \o Flatten(content)
  ELSE Flatten(content)

\* variant: finalMessages is the caller's array itself
PushToCopyAs(msgs, m) == [input |-> Append(msgs, m), final |-> Append(msgs, m)]
\* const finalMessages = [...messages]; finalMessages.push(m): what the
\* caller's array and the returned array hold afterwards
PushToCopy(msgs, m) == [input |-> msgs, final |-> Append(msgs, m)]

\* ({ timestamp, ...rest }) => rest
StripTimestamp(m) == [k \in (DOMAIN m) \ {"timestamp"} |-> m[k]]

\* variant: only the empty key counts as missing
KeyMissingAs(k) == k.kind = "key" /\ k.key = ""
\* !decryptedApiKey
KeyMissing(k) == k.kind = "null" \/ (k.kind = "key" /\ k.key = "")

\* obj[key] of a JSON value: the member's value, or undefined
Member(v, key) ==
  IF v.t = "obj" /\ \E n \in 1..Len(v.kv) : v.kv[n][1] = key
  THEN Some(v.kv[CHOOSE n \in 1..Len(v.kv) : v.kv[n][1] = key][2])
  ELSE Undefined

\* truthiness of a JSON value
Truthy(v) ==
  CASE v.t = "null" -> FALSE
    [] v.t = "bool" -> v.b
    [] v.t = "num" -> v.n # 0
    [] v.t = "str" -> v.s # <<>>
    [] OTHER -> TRUE

\* rawErrorData?.error?.message, when it is truthy
NestedMessage(v) ==
  LET e == Member(v, <<"e", "r", "r", "o", "r">>)
      m == IF e.defined
           THEN Member(e.value, <<"m", "e", "s", "s", "a", "g", "e">>)
           ELSE Undefined
  IN IF m.defined /\ Truthy(m.value) THEN m ELSE Undefined

\* String(v) of the nested message v
MessageText(v) == IF v.t = "str" THEN Flatten(v.s) ELSE Stringify(v)

\* the detailed message once metadata.raw has been parsed
DetailedFrom(parsed, nested, top) ==
  IF parsed.ok /\ nested.defined THEN MessageText(nested.value) ELSE top

\* errorObj.message || 'Provider returned an unspecified error ...'
TopMessage(errorObj) ==
  IF errorObj.message # "" THEN errorObj.message
  ELSE "Provider returned an unspecified error in the response body."

\* NestedMessage of a parsing result
NestedOf(parsed) == IF parsed.ok THEN NestedMessage(parsed.v) ELSE Undefined

\* the detailed message of metadata.raw, parsed being JSON.parse of it
DetailedOfRaw(parsed, top) == DetailedFrom(parsed, NestedOf(parsed), top)

\* the message of an embedded error: the nested message of metadata.raw when
\* that parses and has one, else the top-level message, else a default
DetailedMessage(errorObj) ==
  IF errorObj.raw.defined /\ errorObj.raw.value # <<>>
  THEN DetailedOfRaw(JSONParse(errorObj.raw.value), TopMessage(errorObj))
  ELSE TopMessage(errorObj)

\* variant: the first choice is looked at before the embedded error
CompletionResultAs(chatCompletion, msgs) ==
  IF chatCompletion.choices.defined /\ chatCompletion.choices.value # <<>>
  THEN LET choice == chatCompletion.choices.value[1]
       IN Success([content |-> IF choice.message.content.defined
                               THEN choice.message.content.value ELSE <<>>,
                   messages |-> msgs,
                   fullResponse |-> chatCompletion])
  ELSE IF chatCompletion.error.defined
  THEN Failure(ExecutionError("api_error",
                              DetailedMessage(chatCompletion.error.value)))
  ELSE Failure(ExecutionError("api_error",
                 "Invalid response structure from API: Missing choices."))
\* generateCompletion after the request resolved to body chatCompletion
CompletionResult(chatCompletion, msgs) ==
  IF chatCompletion.error.defined
  THEN Failure(ExecutionError("api_error",
                              DetailedMessage(chatCompletion.error.value)))
  ELSE IF ~chatCompletion.choices.defined \/ chatCompletion.choices.value = <<>>
  THEN Failure(ExecutionError("api_error",
                 "Invalid response structure from API: Missing choices."))
  ELSE LET choice == chatCompletion.choices.value[1]
       IN Success([content |-> IF choice.message.content.defined
                               THEN choice.message.content.value ELSE <<>>,
                   messages |-> msgs,
                   fullResponse |-> chatCompletion])

\* the catch block of generateCompletion
ThrownResult(isApiError, message) ==
  IF isApiError
  THEN Failure(ExecutionError("api_error", message))
  ELSE Failure(ExecutionError("unknown_error", message))

\* fullResponse?.choices?.[0]?.message?.tool_calls
RawToolCalls(fullResponse) ==
  IF fullResponse.choices.defined /\ fullResponse.choices.value # <<>>
  THEN fullResponse.choices.value[1].message.tool_calls
  ELSE Undefined

\* variant: a parse failure leaves null as the args
ParsedOrEmptyAs(parsed) == IF parsed.ok THEN parsed.v ELSE JNull
\* the args of an entry: JSON.parse of the argument string, or {} from the
\* catch block when the argument string does not parse
ParsedOrEmpty(parsed) == IF parsed.ok THEN parsed.v ELSE EmptyObject
\* one entry of the toolCalls of the result
ToolCallInfo(tc) ==
  [name |-> tc.function.name,
   args |-> ParsedOrEmpty(JSONParse(tc.function.arguments)),
   id |-> tc.id,
   result |-> ""]

\* tool_calls?.map(...)
MapToolCalls(tcs) ==
  IF tcs.defined
  THEN Some([i \in 1..Len(tcs.value) |-> ToolCallInfo(tcs.value[i])])
  ELSE Undefined

\* variant: the raw tool_calls are left out of the message
AssistantMessageAs(uuid, content, tcs, time, nodeId) ==
  [id |-> uuid, role |-> "assistant", content |-> content,
   tool_calls |-> Undefined, timestamp |-> time, processNodeId |-> nodeId]
\* the assistant message callModel appends
AssistantMessage(uuid, content, tcs, time, nodeId) ==
  [id |-> uuid, role |-> "assistant", content |-> content,
   tool_calls |-> tcs, timestamp |-> time, processNodeId |-> nodeId]

\* r without its field k: delete copy[k] on a spread copy of r
Omit(r, k) == [f \in (DOMAIN r) \ {k} |-> r[f]]

\* the type guard and the imageUrl check of the patch: a function tool whose
\* parameters.properties.imageUrl has type 'string' and a truthy format
NeedsPatch(tool) ==
  /\ tool.type = "function"
  /\ "parameters" \in DOMAIN tool.function
  /\ "properties" \in DOMAIN tool.function.parameters
  /\ "imageUrl" \in DOMAIN tool.function.parameters.properties
  /\ "type" \in DOMAIN tool.function.parameters.properties.imageUrl
  /\ tool.function.parameters.properties.imageUrl.type = "string"
  /\ "format" \in DOMAIN tool.function.parameters.properties.imageUrl
  /\ tool.function.parameters.properties.imageUrl.format # ""

\* { ...tool, function: { ...tool.function, parameters: mutableParams } },
\* mutableParams being the copy whose imageUrl copy has lost its format
WithoutFormat(tool) ==
  [tool EXCEPT !.function.parameters.properties.imageUrl = Omit(@, "format")]

\* variant: the format is deleted from the caller's imageUrl object
PatchToolAs(tool) ==
  IF NeedsPatch(tool)
  THEN [caller |-> WithoutFormat(tool), wire |-> WithoutFormat(tool)]
  ELSE [caller |-> tool, wire |-> tool]
\* one step of tools.map: what the caller's tool object holds afterwards and
\* the tool that goes into patchedTools
PatchTool(tool) ==
  IF NeedsPatch(tool)
  THEN [caller |-> tool, wire |-> WithoutFormat(tool)]
  ELSE [caller |-> tool, wire |-> tool]

\* if (tools && tools.length > 0) requestParams.tools = tools.map(...): what
\* the caller's array holds afterwards and requestParams.tools
PatchTools(ts) ==
  IF ts.defined /\ Len(ts.value) > 0
  THEN [caller |-> Some([i \in 1..Len(ts.value) |-> PatchTool(ts.value[i]).caller]),
        wire |-> Some([i \in 1..Len(ts.value) |-> PatchTool(ts.value[i]).wire])]
  ELSE [caller |-> ts, wire |-> Undefined]

\* what a local of the running invocation holds before it is assigned
Pending == [kind |-> "pending"]

VARIABLES
  pc,                  \* where the running operation stands
  toolCalls,           \* processToolCalls: input.toolCalls
  tcIndex,             \* processToolCalls: position of the next requested call
  toolCallMessages,    \* processToolCalls: messages collected so far
  processedToolCalls,  \* processToolCalls: records collected so far
  ptcResult,           \* processToolCalls: the value returned
  mcpCalls,            \* invocations of mcpService.callTool, in order
  messages,            \* callModel: the caller's input.messages array
  inputMessages,       \* callModel: what input.messages held at the call
  nodeName,            \* callModel: input.nodeName
  modelDisplayName,    \* callModel: display name found for the prefix
  modelTechnicalName,  \* callModel: technical name found for the prefix
  model,               \* generateCompletion: what getModel returned
  decryptedApiKey,     \* generateCompletion: what the key resolution returned
  keyResolutions,      \* number of resolveAndDecryptApiKey invocations
  requests,            \* requests issued to the completion endpoint
  createOutcome,       \* what openai.chat.completions.create did
  tools,               \* callModel: the caller's input.tools array
  inputTools,          \* callModel: what input.tools held at the call
  response,            \* callModel: the result of generateCompletion
  cmResult,            \* callModel: the value returned
  uuids,               \* number of identifiers generated by uuidv4
  now                  \* Date.now()

ptcVars == <<toolCalls, tcIndex, toolCallMessages, processedToolCalls,
             ptcResult, mcpCalls>>

cmVars == <<messages, inputMessages, nodeName, modelDisplayName,
            modelTechnicalName, model, decryptedApiKey, keyResolutions,
            requests, createOutcome, tools, inputTools, response, cmResult>>

vars == <<pc, ptcVars, cmVars, uuids, now>>

Init ==
  /\ pc = "idle"
  /\ toolCalls = Undefined
  /\ tcIndex = 0
  /\ toolCallMessages = <<>>
  /\ processedToolCalls = <<>>
  /\ ptcResult = NoResult
  /\ mcpCalls = <<>>
  /\ messages = <<>>
  /\ inputMessages = <<>>
  /\ nodeName = ""
  /\ modelDisplayName = ""
  /\ modelTechnicalName = ""
  /\ model = Pending
  /\ decryptedApiKey = Pending
  /\ keyResolutions = 0
  /\ requests = <<>>
  /\ createOutcome = Pending
  /\ tools = Undefined
  /\ inputTools = Undefined
  /\ response = NoResult
  /\ cmResult = NoResult
  /\ uuids = 0
  /\ now = 0

\* processToolCalls is invoked with { toolCalls: input }: the empty-input
\* return, or entry into the loop
PTC_Invoke(input) ==
  /\ toolCalls' = input
  /\ IF IsEmptyInput(input)
     THEN /\ pc' = "ptc_done"
          /\ ptcResult' = EmptyResult
          /\ tcIndex' = 0
     ELSE /\ pc' = "ptc_loop"
          /\ ptcResult' = NoResult
          /\ tcIndex' = 1
  /\ toolCallMessages' = <<>>
  /\ processedToolCalls' = <<>>
  /\ UNCHANGED <<mcpCalls, cmVars, uuids, now>>

\* processToolCalls is invoked on its own
PTC_Start ==
  /\ pc = "idle"
  /\ \E input \in ToolCallInputs : PTC_Invoke(input)

\* the end of one iteration: h is what handling call tc left behind
PTC_Record(tc, h, out) ==
  /\ mcpCalls' = mcpCalls \o Invocations(h.call, tcIndex, out)
  /\ IF h.escaped
     THEN /\ pc' = "ptc_done"
          /\ ptcResult' = Failure(ExecutionError("tool_processing_failed",
                                                 OuterCatchMessage(h.err)))
          /\ UNCHANGED <<toolCallMessages, processedToolCalls, uuids>>
     ELSE /\ toolCallMessages' =
               Append(toolCallMessages,
                      ToolMessage(Uuid(uuids + 1), tc, h.content, now + 1))
          /\ processedToolCalls' =
               Append(processedToolCalls, ProcessedCall(tc, h.args, h.content))
          /\ uuids' = uuids + 1
          /\ UNCHANGED <<pc, ptcResult>>

\* one iteration of the for loop: the requested call at tcIndex is handled;
\* an exception that escapes the per-call handling ends the invocation
PTC_Step ==
  /\ pc = "ptc_loop"
  /\ tcIndex <= Len(toolCalls.value)
  /\ \E out \in McpOutcomes :
       PTC_Record(toolCalls.value[tcIndex],
                  HandleToolCall(toolCalls.value[tcIndex], out), out)
  /\ tcIndex' = tcIndex + 1
  /\ now' = now + 1
  /\ UNCHANGED <<toolCalls, cmVars>>

\* the loop is over: the collected sequences are returned
PTC_Return ==
  /\ pc = "ptc_loop"
  /\ tcIndex > Len(toolCalls.value)
  /\ pc' = "ptc_done"
  /\ ptcResult' = Success([toolCallMessages |-> toolCallMessages,
                           processedToolCalls |-> processedToolCalls])
  /\ UNCHANGED <<toolCalls, tcIndex, toolCallMessages, processedToolCalls,
                 mcpCalls, cmVars, uuids, now>>

\* callModel is invoked with input { messages: T, nodeName: n, tools: ts }
CM_Invoke(T, n, ts) ==
  /\ pc = "idle"
  /\ messages' = T
  /\ inputMessages' = T
  /\ nodeName' = n
  /\ tools' = ts
  /\ inputTools' = ts
  /\ pc' = "cm_prefix"
  /\ UNCHANGED <<modelDisplayName, modelTechnicalName, model, decryptedApiKey,
                 keyResolutions, requests, createOutcome, response, cmResult,
                 ptcVars, uuids, now>>

\* callModel is invoked with a transcript and a node name, without tools
CM_Start ==
  \E T \in Transcripts, n \in NodeNames : CM_Invoke(T, n, Undefined)

\* callModel fetches the model for the display name; a failure is only logged
CM_PrefixLookup ==
  /\ pc = "cm_prefix"
  /\ \E r \in LookupOutcomes :
       IF r.kind = "model"
       THEN /\ modelDisplayName' = DisplayNameOf(r.model)
            /\ modelTechnicalName' = r.model.name
       ELSE UNCHANGED <<modelDisplayName, modelTechnicalName>>
  /\ pc' = "gc_model"
  /\ now' = now + 1
  /\ UNCHANGED <<messages, inputMessages, nodeName, model, decryptedApiKey,
                 keyResolutions, requests, createOutcome, tools, inputTools,
                 response, cmResult, ptcVars, uuids>>

\* generateCompletion resolves the model descriptor
GC_GetModel ==
  /\ pc = "gc_model"
  /\ \E r \in LookupOutcomes :
       /\ model' = r
       /\ CASE r.kind = "thrown" ->
                 /\ response' = ThrownResult(FALSE, "catalog unavailable")
                 /\ pc' = "cm_return"
            [] r.kind = "null" ->
                 /\ response' = Failure(ExecutionError("model_not_found",
                                                       "Model not found: model-1"))
                 /\ pc' = "cm_return"
            [] r.kind = "model" ->
                 /\ response' = response
                 /\ pc' = "gc_key"
  /\ now' = now + 1
  /\ UNCHANGED <<messages, inputMessages, nodeName, modelDisplayName,
                 modelTechnicalName, decryptedApiKey, keyResolutions, requests,
                 createOutcome, tools, inputTools, cmResult, ptcVars, uuids>>

\* generateCompletion resolves and decrypts the API key
GC_ResolveKey ==
  /\ pc = "gc_key"
  /\ keyResolutions' = keyResolutions + 1
  /\ \E k \in KeyOutcomes :
       /\ decryptedApiKey' = k
       /\ IF k.kind = "thrown"
          THEN /\ response' = ThrownResult(FALSE, "decryption failed")
               /\ pc' = "cm_return"
          ELSE IF KeyMissing(k)
          THEN /\ response' = Failure(ExecutionError("api_key_error",
                                        "Failed to resolve or decrypt API key"))
               /\ pc' = "cm_return"
          ELSE /\ response' = response
               /\ pc' = "gc_request"
  /\ now' = now + 1
  /\ UNCHANGED <<messages, inputMessages, nodeName, modelDisplayName,
                 modelTechnicalName, model, requests, createOutcome, tools,
                 inputTools, cmResult, ptcVars, uuids>>

\* generateCompletion builds the request parameters, issues the request,
\* to which the endpoint reacts with o, and classifies what comes back
GC_Respond(o) ==
  /\ pc = "gc_request"
  /\ tools' = PatchTools(tools).caller
  /\ requests' = Append(requests,
                        [model |-> model.model.name,
                         messages |-> [i \in 1..Len(messages) |->
                                         StripTimestamp(messages[i])],
                         tools |-> PatchTools(tools).wire])
  /\ createOutcome' = o
  /\ response' = CASE o.kind = "apiError" -> ThrownResult(TRUE, o.message)
                    [] o.kind = "otherError" -> ThrownResult(FALSE, o.message)
                    [] o.kind = "body" -> CompletionResult(o.body, messages)
  /\ pc' = "cm_return"
  /\ now' = now + 1
  /\ UNCHANGED <<messages, inputMessages, nodeName, modelDisplayName,
                 modelTechnicalName, model, decryptedApiKey, keyResolutions,
                 inputTools, cmResult, ptcVars, uuids>>

\* the request of generateCompletion, whatever the endpoint does
GC_Request == \E o \in RequestOutcomes : GC_Respond(o)

\* callModel returns: the error of generateCompletion, or the transcript
\* with the assistant message appended and the mapped tool calls
CM_Return ==
  /\ pc = "cm_return"
  /\ pc' = "cm_done"
  /\ IF ~response.success
     THEN /\ cmResult' = Failure(response.error)
          /\ UNCHANGED <<messages, uuids>>
     ELSE LET content == response.value.content
              raw == RawToolCalls(response.value.fullResponse)
              assistantMessage ==
                AssistantMessage(Uuid(uuids + 1),
                                 PrefixedContent(nodeName, modelDisplayName,
                                                 modelTechnicalName, content),
                                 raw, now, "node-1")
              pushed == PushToCopy(messages, assistantMessage)
          IN /\ messages' = pushed.input
             /\ uuids' = uuids + 1
             /\ cmResult' = Success([content |-> assistantMessage.content,
                                     messages |-> pushed.final,
                                     fullResponse |-> response.value.fullResponse,
                                     toolCalls |-> MapToolCalls(raw)])
  /\ UNCHANGED <<inputMessages, nodeName, modelDisplayName, modelTechnicalName,
                 model, decryptedApiKey, keyResolutions, requests,
                 createOutcome, tools, inputTools, response, ptcVars, now>>

Next ==
  \/ PTC_Start
  \/ PTC_Step
  \/ PTC_Return
  \/ CM_Start
  \/ CM_PrefixLookup
  \/ GC_GetModel
  \/ GC_ResolveKey
  \/ GC_Request
  \/ CM_Return

Spec == Init /\ [][Next]_vars

(***************************************************************************)
(* One turn: callModel on a conversation, then processToolCalls on the     *)
(* tool calls the new assistant message carries.                           *)
(***************************************************************************)
\* an earlier assistant message that requested a tool, and messages that
\* answer a tool call
EarlierCall ==
  ToolCall("call_7", DELIMITER \o SRV \o DELIMITER \o GET, <<"{", "}">>)
AssistantCalling ==
  AssistantMessage("m-call", "", Some(<<EarlierCall>>), 12, "node-0")
ToolAnswer == ToolMessage("m-tool", EarlierCall, "{\"hits\":3}", 13)
ToolStray ==
  ToolMessage("m-stray", ToolCall(CallId(1), HANDOFF, <<"{", "}">>), "{}", 9)
UserMessage ==
  [id |-> "m-user", role |-> "user", content |-> "hello", timestamp |-> 10]

\* conversations a turn starts from: with and without a tool exchange, the
\* exchange in order and out of order, and a tool message nobody asked for
Conversations ==
  { <<>>,
    <<UserMessage>>,
    <<UserMessage, AssistantCalling, ToolAnswer>>,
    <<UserMessage, ToolAnswer, AssistantCalling>>,
    <<ToolStray, UserMessage>> }

\* callModel is invoked on a conversation
Turn_Start ==
  \E T \in Conversations, n \in NodeNames : CM_Invoke(T, n, Undefined)

\* callModel has succeeded: processToolCalls is invoked with the tool_calls
\* of the assistant message callModel appended
Turn_ProcessToolCalls ==
  /\ pc = "cm_done"
  /\ cmResult.success
  /\ PTC_Invoke(cmResult.value.messages[Len(cmResult.value.messages)].tool_calls)

TurnNext ==
  \/ Turn_Start
  \/ CM_PrefixLookup
  \/ GC_GetModel
  \/ GC_ResolveKey
  \/ GC_Request
  \/ CM_Return
  \/ Turn_ProcessToolCalls
  \/ PTC_Step
  \/ PTC_Return

TurnSpec == Init /\ [][TurnNext]_vars

(***************************************************************************)
(* callModel with tool schemas.                                            *)
(***************************************************************************)
\* a function tool whose imageUrl parameter is a string with a format, next
\* to another string parameter with a format
ImageTool ==
  [type |-> "function",
   function |->
     [name |-> "show", description |-> "Show an image",
      parameters |->
        [type |-> "object",
         properties |->
           [imageUrl |-> [type |-> "string", format |-> "uri",
                          description |-> "where the image is"],
            caption |-> [type |-> "string", format |-> "date-time"]],
         required |-> <<"imageUrl">>]]]

\* imageUrl is a string without format
PlainImageTool ==
  [type |-> "function",
   function |->
     [name |-> "fetch",
      parameters |->
        [type |-> "object",
         properties |-> [imageUrl |-> [type |-> "string"]]]]]

\* imageUrl has a format and is no string
NumberImageTool ==
  [type |-> "function",
   function |->
     [name |-> "frame",
      parameters |->
        [type |-> "object",
         properties |-> [imageUrl |-> [type |-> "number", format |-> "float"]]]]]

\* a string parameter with a format under another name
LinkTool ==
  [type |-> "function",
   function |->
     [name |-> "open",
      parameters |->
        [type |-> "object",
         properties |-> [link |-> [type |-> "string", format |-> "uri"]]]]]

\* a function tool without parameters
BareTool == [type |-> "function", function |-> [name |-> "ping"]]

\* imageUrl is a string whose format is the empty string
EmptyFormatTool ==
  [type |-> "function",
   function |->
     [name |-> "thumb",
      parameters |->
        [type |-> "object",
         properties |-> [imageUrl |-> [type |-> "string", format |-> ""]]]]]

\* a tool that is no function tool
CustomTool == [type |-> "custom", custom |-> [name |-> "shell"]]

ToolSchemas ==
  { ImageTool, PlainImageTool, NumberImageTool, LinkTool, BareTool,
    EmptyFormatTool, CustomTool }

\* input.tools: absent, or a list of tool schemas
ToolInputs ==
  {Undefined} \cup
  { Some(ts) : ts \in UNION { [1..n -> ToolSchemas] : n \in 0..MaxTools } }

\* what the endpoint does where the claim does not depend on it
PlainOutcomes ==
  { [kind |-> "apiError", message |-> "401 Unauthorized"],
    [kind |-> "body",
     body |-> [error |-> Undefined, choices |-> Some(<<PlainChoice>>)]] }

\* callModel is invoked with tool schemas
Tools_Start ==
  \E ts \in ToolInputs, n \in NodeNames : CM_Invoke(<<UserMessage>>, n, ts)

\* the request of generateCompletion, answered plainly
Tools_Request == \E o \in PlainOutcomes : GC_Respond(o)

ToolsNext ==
  \/ Tools_Start
  \/ CM_PrefixLookup
  \/ GC_GetModel
  \/ GC_ResolveKey
  \/ Tools_Request
  \/ CM_Return

ToolsSpec == Init /\ [][ToolsNext]_vars

(***************************************************************************)
(* Properties of processToolCalls.                                         *)
(***************************************************************************)
\* does the TLA+ string str begin with prefix?
BeginsWith(str, prefix) ==
  /\ Len(prefix) <= Len(str)
  /\ SubSeq(str, 1, Len(prefix)) = prefix

\* positions of the requested calls whose iteration has run
HandledCalls == IF toolCalls.defined THEN 1..(tcIndex - 1) ELSE {}

ArgsOf(i) == toolCalls.value[i].function.arguments
NameOf(i) == toolCalls.value[i].function.name

\* the mcpService.callTool invocations made for the call at position i
InvocationsFor(i) == SelectSeq(mcpCalls, LAMBDA c : c.callIndex = i)

PtcReturned == pc = "ptc_done"
PtcSucceeded == PtcReturned /\ ptcResult.success

\* the call at position i left a tool message and a processed-call record
\* that both carry result string r, the record carrying args a
Recorded(i, r, a) ==
  /\ i <= Len(toolCallMessages)
  /\ i <= Len(processedToolCalls)
  /\ toolCallMessages[i].role = "tool"
  /\ toolCallMessages[i].tool_call_id = toolCalls.value[i].id
  /\ toolCallMessages[i].content = r
  /\ processedToolCalls[i].id = toolCalls.value[i].id
  /\ processedToolCalls[i].args = a
  /\ processedToolCalls[i].result = r

\* once the invocation has returned, it returned success with every
\* requested call answered
ReturnsAllOnSuccess ==
  PtcReturned =>
    /\ ptcResult.success
    /\ Len(ptcResult.value.toolCallMessages) = Len(toolCalls.value)
    /\ Len(ptcResult.value.processedToolCalls) = Len(toolCalls.value)
    /\ ptcResult.value.toolCallMessages = toolCallMessages
    /\ ptcResult.value.processedToolCalls = processedToolCalls

\* C2 as stated: once a requested call whose argument string does not parse
\* has been handled, the invocation has returned the overall failure
\* tool_processing_failed and no tool message or record for any call
C2_ParseFailureAborts ==
  \A i \in HandledCalls :
    ~JSONParse(ArgsOf(i)).ok =>
      /\ PtcReturned
      /\ ~ptcResult.success
      /\ ptcResult.error.type = "tool_processing_failed"

\* C2 amended: a requested call whose argument string does not parse is
\* caught by the per-call handling: it is recorded as a tool message with
\* content 'Error: <SyntaxError message>' and a processed-call record with
\* empty args, no service call is made for it, the loop goes on, and the
\* invocation returns success with one entry per requested call
C2_ParseFailureIsolated ==
  \A i \in HandledCalls :
    ~JSONParse(ArgsOf(i)).ok =>
      /\ Recorded(i, "Error: " \o SyntaxErrorMessage(ArgsOf(i)), EmptyObject)
      /\ InvocationsFor(i) = <<>>
      /\ ReturnsAllOnSuccess

\* a batch whose first call has an unparsable argument string has returned
\* success, the second call having been answered by the service
C2_Witness ==
  /\ PtcSucceeded
  /\ toolCalls.defined
  /\ Len(toolCalls.value) = 2
  /\ ~JSONParse(ArgsOf(1)).ok
  /\ Len(InvocationsFor(2)) = 1
  /\ Len(ptcResult.value.toolCallMessages) = 2

\* C4: on every non-empty input on which processToolCalls returns success,
\* the returned toolCallMessages and processedToolCalls each have one entry
\* per requested call, in request order: entry i has role tool, carries the
\* id of the i-th requested call in both sequences, and the message content
\* equals the record's result
C4_OneEntryPerCallInOrder ==
  (PtcSucceeded /\ toolCalls.defined /\ Len(toolCalls.value) > 0) =>
    LET v == ptcResult.value
    IN /\ Len(v.toolCallMessages) = Len(toolCalls.value)
       /\ Len(v.processedToolCalls) = Len(toolCalls.value)
       /\ \A i \in 1..Len(toolCalls.value) :
            /\ v.toolCallMessages[i].role = "tool"
            /\ v.toolCallMessages[i].tool_call_id = toolCalls.value[i].id
            /\ v.processedToolCalls[i].id = toolCalls.value[i].id
            /\ v.toolCallMessages[i].content = v.processedToolCalls[i].result

\* a two-call batch has returned: the first call failed, the second did not
C4_Witness ==
  /\ PtcSucceeded
  /\ toolCalls.defined
  /\ Len(toolCalls.value) = 2
  /\ BeginsWith(ptcResult.value.toolCallMessages[1].content, "Error: ")
  /\ ~BeginsWith(ptcResult.value.toolCallMessages[2].content, "Error: ")
  /\ ptcResult.value.toolCallMessages[2].tool_call_id = CallId(2)

\* the name of the call at position i is 'handoff' or begins 'handoff_to_'
NameIsHandoff(i) ==
  \/ NameOf(i) = <<"h", "a", "n", "d", "o", "f", "f">>
  \/ StartsWith(NameOf(i), <<"h", "a", "n", "d", "o", "f", "f", "_", "t", "o", "_">>)

\* segments of the name of the call at position i on the delimiter '_-_-_'
Segments(i) == Split(NameOf(i), <<"_", "-", "_", "-", "_">>)

\* the service threw while the call at position i was handled
ServiceThrew(i) ==
  \E n \in 1..Len(mcpCalls) :
    /\ mcpCalls[n].callIndex = i
    /\ mcpCalls[n].outcome.kind \in {"throwError", "throwOther"}

\* the message of the exception raised while handling the call at position i
\* (its arguments parse): the invalid name, or what the service threw
RaisedMessage(i) ==
  IF ~NameIsHandoff(i) /\ Len(Segments(i)) # 3
  THEN "Invalid tool name format: " \o Flatten(NameOf(i))
  ELSE LET out == InvocationsFor(i)[1].outcome
       IN IF out.kind = "throwError" THEN out.error ELSE "Unknown error"

\* C5: an exception raised while handling one call whose arguments parse (an
\* invalid tool name, or mcpService.callTool throwing) is caught for that
\* call only: it is recorded as a tool message with content
\* 'Error: <message>' and a processed-call record with empty args and the
\* same result, the later calls are processed and the invocation returns
\* success
C5_ExceptionIsolated ==
  \A i \in HandledCalls :
    (/\ JSONParse(ArgsOf(i)).ok
     /\ \/ ~NameIsHandoff(i) /\ Len(Segments(i)) # 3
        \/ ServiceThrew(i)) =>
      /\ Recorded(i, "Error: " \o RaisedMessage(i), EmptyObject)
      /\ ReturnsAllOnSuccess

\* a two-call batch has returned success: the service threw on the first
\* call, and the second call, a handoff, was answered
C5_Witness ==
  /\ PtcSucceeded
  /\ toolCalls.defined
  /\ Len(toolCalls.value) = 2
  /\ ServiceThrew(1)
  /\ NameIsHandoff(2)
  /\ JSONParse(ArgsOf(2)).ok
  /\ ~BeginsWith(ptcResult.value.toolCallMessages[2].content, "Error: ")

\* C6 as stated: every requested call whose name is not a handoff name and
\* does not split into exactly three segments gets a result beginning
\* 'Error: Invalid tool name format', and the service is not invoked for it
C6_InvalidNameResult ==
  \A i \in HandledCalls :
    (~NameIsHandoff(i) /\ Len(Segments(i)) # 3) =>
      /\ i <= Len(toolCallMessages)
      /\ BeginsWith(toolCallMessages[i].content, "Error: Invalid tool name format")
      /\ InvocationsFor(i) = <<>>

\* C6 amended: for every requested call whose name is not a handoff name and
\* does not split into exactly three segments, the service is never invoked;
\* its result is 'Error: Invalid tool name format: <name>' when its argument
\* string parses, and 'Error: <SyntaxError message>' when it does not
C6_InvalidNameAfterParse ==
  \A i \in HandledCalls :
    (~NameIsHandoff(i) /\ Len(Segments(i)) # 3) =>
      /\ InvocationsFor(i) = <<>>
      /\ i <= Len(toolCallMessages)
      /\ IF JSONParse(ArgsOf(i)).ok
         THEN /\ BeginsWith(toolCallMessages[i].content,
                            "Error: Invalid tool name format")
              /\ Recorded(i, "Error: Invalid tool name format: "
                               \o Flatten(NameOf(i)), EmptyObject)
         ELSE Recorded(i, "Error: " \o SyntaxErrorMessage(ArgsOf(i)), EmptyObject)

\* a call with a four-segment name and parsable arguments has been handled
C6_Witness ==
  /\ toolCalls.defined
  /\ 1 \in HandledCalls
  /\ Len(Segments(1)) = 4
  /\ JSONParse(ArgsOf(1)).ok
  /\ BeginsWith(toolCallMessages[1].content, "Error: Invalid tool name format")

\* {"x":1}
ArgsX1 == <<"{", "\"", "x", "\"", ":", "1", "}">>

\* C7: a requested call named 'handoff' or 'handoff_to_*' whose arguments
\* parse succeeds locally: its result content is the JSON text of
\* {handoff: true, args} with args the parsed arguments, its record keeps
\* the parsed args, and the service is never invoked for it
C7_HandoffIsLocal ==
  \A i \in HandledCalls :
    (NameIsHandoff(i) /\ JSONParse(ArgsOf(i)).ok) =>
      /\ Recorded(i, "{\"handoff\":true,\"args\":"
                       \o Stringify(JSONParse(ArgsOf(i)).v) \o "}",
                  JSONParse(ArgsOf(i)).v)
      /\ ArgsOf(i) = ArgsX1 =>
           toolCallMessages[i].content = "{\"handoff\":true,\"args\":{\"x\":1}}"
      /\ InvocationsFor(i) = <<>>

\* handoff_to_b with arguments {"x":1} has been handled
C7_Witness ==
  /\ toolCalls.defined
  /\ 1 \in HandledCalls
  /\ NameOf(1) = HANDOFF_TO \o <<"b">>
  /\ ArgsOf(1) = ArgsX1
  /\ toolCallMessages[1].content = "{\"handoff\":true,\"args\":{\"x\":1}}"

\* C8: for a requested call with a non-handoff name of exactly three
\* segments whose arguments parse, the service is invoked exactly once with
\* (second segment, third segment, parsed args); reported success gives the
\* JSON text of the data as result, reported failure gives 'Error: <error>',
\* and in both cases the record carries the parsed args
C8_McpDispatch ==
  \A i \in HandledCalls :
    (~NameIsHandoff(i) /\ Len(Segments(i)) = 3 /\ JSONParse(ArgsOf(i)).ok) =>
      /\ Len(InvocationsFor(i)) = 1
      /\ InvocationsFor(i)[1].request =
           [serverName |-> Segments(i)[2], toolName |-> Segments(i)[3],
            args |-> JSONParse(ArgsOf(i)).v]
      /\ LET out == InvocationsFor(i)[1].outcome
         IN /\ out.kind = "success" =>
                 Recorded(i, Stringify(out.data), JSONParse(ArgsOf(i)).v)
            /\ (out.kind = "success" /\ out.data = HitsData) =>
                 toolCallMessages[i].content = "{\"hits\":3}"
            /\ out.kind = "failure" =>
                 Recorded(i, "Error: " \o out.error, JSONParse(ArgsOf(i)).v)

\* x_-_-_srv_-_-_get with arguments { "q" : "x" } has been answered by the
\* service with {"hits":3}, and a later call with its reported failure
C8_Witness ==
  /\ toolCalls.defined
  /\ 2 \in HandledCalls
  /\ NameOf(1) = <<"x">> \o DELIMITER \o SRV \o DELIMITER \o GET
  /\ Len(InvocationsFor(1)) = 1
  /\ InvocationsFor(1)[1].request.serverName = SRV
  /\ InvocationsFor(1)[1].request.args # EmptyObject
  /\ toolCallMessages[1].content = "{\"hits\":3}"
  /\ Len(InvocationsFor(2)) = 1
  /\ toolCallMessages[2].content = "Error: Tool not found"

\* processToolCalls has been invoked
PtcInvoked == pc \in {"ptc_loop", "ptc_done"}

\* C9: invoked with an absent or empty sequence of requested calls,
\* processToolCalls returns success with both sequences empty and the
\* service is invoked zero times
C9_EmptyInput ==
  (PtcInvoked /\ (~toolCalls.defined \/ toolCalls.value = <<>>)) =>
    /\ PtcReturned
    /\ ptcResult = [success |-> TRUE,
                    value |-> [toolCallMessages |-> <<>>,
                               processedToolCalls |-> <<>>]]
    /\ mcpCalls = <<>>

\* processToolCalls has returned for an absent input
C9_Witness ==
  /\ PtcReturned
  /\ ~toolCalls.defined
  /\ ptcResult.success

(***************************************************************************)
(* Properties of callModel.                                                *)
(***************************************************************************)
\* callModel has been invoked / has returned
CmInvoked == pc \in {"cm_prefix", "gc_model", "gc_key", "gc_request",
                     "cm_return", "cm_done"}
CmReturned == pc = "cm_done"
CmSucceeded == CmReturned /\ cmResult.success

\* C1: callModel never changes the caller's transcript T; on success the
\* returned messages are T followed by exactly one new message, whose role
\* is assistant; on failure the returned value is {success: false, error}
\* and carries no transcript
C1_InputTranscriptUntouched ==
  CmInvoked =>
    /\ messages = inputMessages
    /\ CmSucceeded =>
         /\ Len(cmResult.value.messages) = Len(inputMessages) + 1
         /\ SubSeq(cmResult.value.messages, 1, Len(inputMessages)) = inputMessages
         /\ cmResult.value.messages[Len(inputMessages) + 1].role = "assistant"
    /\ (CmReturned /\ ~cmResult.success) =>
         /\ DOMAIN cmResult = {"success", "error"}
         /\ cmResult.error = response.error

\* callModel has succeeded on a transcript of two messages
C1_Witness ==
  /\ CmSucceeded
  /\ Len(inputMessages) = 2
  /\ Len(cmResult.value.messages) = 3
  /\ Len(messages) = 2

\* the raw content of the completion callModel works on
RawContent == response.value.content

\* the heading callModel builds from the names it holds
Heading ==
  "## " \o nodeName \o " - " \o modelDisplayName
    \o " (" \o modelTechnicalName \o ") says:\n\n"

\* ## A SAYS: \n\n
UpperCaseHeading ==
  <<"#", "#", " ", "A", " ", "S", "A", "Y", "S", ":", " ", "\n", "\n">>
\* ## A says:\nhi
SingleLineFeed ==
  <<"#", "#", " ", "A", " ", "s", "a", "y", "s", ":", "\n", "h", "i">>

\* content of the assistant message appended by a successful callModel
AppendedContent == cmResult.value.messages[Len(cmResult.value.messages)].content

\* C3 as stated: on every successful callModel, whatever the preliminary
\* lookup gave, the content is the raw content when that matches the
\* heading pattern, and otherwise the heading followed by the raw content
C3_PrefixWhateverLookup ==
  CmSucceeded =>
    /\ AppendedContent = cmResult.value.content
    /\ IF HasHeadingPattern(RawContent)
       THEN cmResult.value.content = Flatten(RawContent)
       ELSE cmResult.value.content = Heading \o Flatten(RawContent)

\* C3 amended: on every successful callModel the appended message and the
\* result carry the same content; it is the heading followed by the raw
\* content when the preliminary lookup found a display name and the raw
\* content does not match the heading pattern, and the raw content verbatim
\* otherwise (pattern matched, or no display name was found)
C3_PrefixNeedsDisplayName ==
  CmSucceeded =>
    /\ AppendedContent = cmResult.value.content
    /\ IF modelDisplayName # "" /\ ~HasHeadingPattern(RawContent)
       THEN cmResult.value.content = Heading \o Flatten(RawContent)
       ELSE cmResult.value.content = Flatten(RawContent)
    /\ RawContent = UpperCaseHeading =>
         cmResult.value.content = "## A SAYS: \n\n"
    /\ (RawContent = SingleLineFeed /\ modelDisplayName = "llama") =>
         cmResult.value.content = "## Agent - llama (llama) says:\n\n## A says:\nhi"

\* callModel has succeeded with a prefixed content, the display name being
\* the technical name of a model without display name
C3_Witness ==
  /\ CmSucceeded
  /\ modelDisplayName = "llama"
  /\ RawContent = SingleLineFeed
  /\ cmResult.value.content = "## Agent - llama (llama) says:\n\n## A says:\nhi"

\* C10: one callModel invocation issues at most one completion request:
\* exactly one when the model descriptor and the API key both resolve, none
\* when the model lookup returns nothing (failure model_not_found, reported
\* before any key resolution) or the key resolution returns nothing
\* (failure api_key_error)
C10_AtMostOneRequest ==
  /\ Len(requests) <= 1
  /\ CmReturned =>
       /\ (model.kind = "model" /\ decryptedApiKey.kind = "key"
             /\ decryptedApiKey.key # "") => Len(requests) = 1
       /\ model.kind = "null" =>
            /\ requests = <<>>
            /\ keyResolutions = 0
            /\ ~cmResult.success
            /\ cmResult.error.type = "model_not_found"
       /\ decryptedApiKey.kind = "null" =>
            /\ requests = <<>>
            /\ ~cmResult.success
            /\ cmResult.error.type = "api_key_error"
  /\ pc \in {"cm_prefix", "gc_model", "gc_key"} =>
       (requests = <<>> /\ (pc # "gc_key" => keyResolutions = 0))

\* callModel has returned api_key_error without issuing a request
C10_Witness ==
  /\ CmReturned
  /\ model.kind = "model"
  /\ decryptedApiKey.kind = "null"
  /\ keyResolutions = 1
  /\ requests = <<>>
  /\ cmResult.error.type = "api_key_error"

(***************************************************************************)
(* Classification of what the completion request comes back with.          *)
(***************************************************************************)
\* the completion request has been issued and callModel has returned
RequestAnswered == CmReturned /\ createOutcome # Pending

\* what the endpoint did with the request
ClientThrewApiError == createOutcome.kind = "apiError"
ClientThrewOther == createOutcome.kind = "otherError"
BodyWithError ==
  createOutcome.kind = "body" /\ createOutcome.body.error.defined
BodyWithoutChoice ==
  /\ createOutcome.kind = "body"
  /\ ~createOutcome.body.error.defined
  /\ (createOutcome.body.choices.defined => createOutcome.body.choices.value = <<>>)

\* callModel has returned a failure of kind k
FailedAs(k) == cmResult # NoResult /\ ~cmResult.success /\ cmResult.error.type = k

\* C11: once the completion request has been issued, callModel returns a
\* result whatever the endpoint does: an APIError thrown by the client and a
\* body carrying an embedded error both give failure kind api_error (the
\* embedded error also when the body has choices), a body without embedded
\* error and without a first choice gives api_error, any other exception
\* gives unknown_error, and the error returned is the one generateCompletion
\* produced.
C11_FailuresClassified ==
  RequestAnswered =>
    /\ cmResult # NoResult
    /\ ClientThrewApiError =>
         FailedAs("api_error") /\ cmResult.error.message = createOutcome.message
    /\ BodyWithError => FailedAs("api_error")
    /\ BodyWithoutChoice =>
         /\ FailedAs("api_error")
         /\ cmResult.error.message =
              "Invalid response structure from API: Missing choices."
    /\ ClientThrewOther =>
         FailedAs("unknown_error") /\ cmResult.error.message = createOutcome.message
    /\ ~cmResult.success => cmResult.error = response.error

\* callModel has returned api_error for a body that carries an embedded
\* error next to a usable first choice
C11_Witness ==
  /\ RequestAnswered
  /\ BodyWithError
  /\ createOutcome.body.choices.defined
  /\ createOutcome.body.choices.value # <<>>
  /\ FailedAs("api_error")
  /\ cmResult.error = response.error

(***************************************************************************)
(* The transcript over one turn.                                           *)
(***************************************************************************)
\* message m is an assistant message carrying a tool call with identifier id
Requests(m, id) ==
  /\ m.role = "assistant"
  /\ m.tool_calls.defined
  /\ \E k \in 1..Len(m.tool_calls.value) : m.tool_calls.value[k].id = id

\* every tool-role message of T answers a tool call of an assistant message
\* that precedes it in T
TranscriptInvariant(T) ==
  \A i \in 1..Len(T) :
    T[i].role = "tool" =>
      \E j \in 1..(i - 1) : Requests(T[j], T[i].tool_call_id)

\* callModel and then processToolCalls have both returned success
TurnCompleted ==
  /\ pc = "ptc_done"
  /\ cmResult # NoResult
  /\ cmResult.success
  /\ ptcResult.success

\* the message callModel appended, and the tool_calls of the raw first choice
NewAssistantMessage == cmResult.value.messages[Len(cmResult.value.messages)]
RawResponseCalls == createOutcome.body.choices.value[1].message.tool_calls

\* the transcript callModel returned, extended with the tool messages
ComposedTranscript ==
  cmResult.value.messages \o ptcResult.value.toolCallMessages

\* C12: after a turn (a successful callModel on transcript T, then
\* processToolCalls on the tool_calls of the new assistant message) the new
\* assistant message carries the raw response's tool_calls, every tool
\* message emitted references the id of one of them, and if every tool
\* message of T answers a tool call of a preceding assistant message, then
\* so does every tool message of the returned transcript extended with the
\* emitted tool messages.
C12_TurnKeepsInvariant ==
  (TurnCompleted /\ toolCalls = NewAssistantMessage.tool_calls) =>
    /\ NewAssistantMessage.role = "assistant"
    /\ NewAssistantMessage.tool_calls = RawResponseCalls
    /\ \A n \in 1..Len(ptcResult.value.toolCallMessages) :
         /\ ptcResult.value.toolCallMessages[n].role = "tool"
         /\ RawResponseCalls.defined
         /\ \E k \in 1..Len(RawResponseCalls.value) :
              RawResponseCalls.value[k].id =
                ptcResult.value.toolCallMessages[n].tool_call_id
    /\ TranscriptInvariant(inputMessages) => TranscriptInvariant(ComposedTranscript)

\* a turn on a conversation that holds an answered tool call has ended with
\* a new tool message behind the new assistant message
C12_Witness ==
  /\ TurnCompleted
  /\ inputMessages = <<UserMessage, AssistantCalling, ToolAnswer>>
  /\ Len(ptcResult.value.toolCallMessages) >= 1
  /\ Len(ComposedTranscript) >= 5
  /\ ComposedTranscript[5].role = "tool"
  /\ ComposedTranscript[5].tool_call_id = CallId(1)
  /\ TranscriptInvariant(ComposedTranscript)

(***************************************************************************)
(* The tool calls callModel reports.                                       *)
(***************************************************************************)
\* {"x":  (an argument string cut short)
ArgsCutShort == <<"{", "\"", "x", "\"", ":">>

\* the value of {"x":1}
ValueX1 == JObj(<< << <<"x">>, JNum(1) >> >>)

\* the tool_calls of the raw first choice of a response callModel accepted
FirstChoiceCalls ==
  cmResult.value.fullResponse.choices.value[1].message.tool_calls

\* entry e of the returned toolCalls reports raw tool call tc
Reports(e, tc) ==
  /\ e.name = tc.function.name
  /\ e.id = tc.id
  /\ e.result = ""
  /\ tc.function.arguments = ArgsX1 => e.args = ValueX1
  /\ tc.function.arguments = ArgsCutShort => e.args = EmptyObject
  /\ e.args = IF JSONParse(tc.function.arguments).ok
              THEN JSONParse(tc.function.arguments).v
              ELSE EmptyObject

ImageToolSent ==
  [type |-> "function",
   function |->
     [name |-> "show", description |-> "Show an image",
      parameters |->
        [type |-> "object",
         properties |->
           [imageUrl |-> [type |-> "string",
                          description |-> "where the image is"],
            caption |-> [type |-> "string", format |-> "date-time"]],
         required |-> <<"imageUrl">>]]]

\* tool t is a function tool whose imageUrl parameter is a string with a
\* format constraint (the empty string constrains nothing)
ConstrainedImageUrl(t) ==
  /\ t.type = "function"
  /\ "parameters" \in DOMAIN t.function
  /\ "imageUrl" \in DOMAIN t.function.parameters.properties
  /\ LET p == t.function.parameters.properties.imageUrl
     IN p.type = "string" /\ "format" \in DOMAIN p /\ p.format # ""

\* w is t with the format of its imageUrl parameter removed and nothing
\* else changed
FormatRemoved(t, w) ==
  /\ "format" \notin DOMAIN w.function.parameters.properties.imageUrl
  /\ [w EXCEPT !.function.parameters.properties.imageUrl =
                 [type |-> "string"]]
       = [t EXCEPT !.function.parameters.properties.imageUrl =
                     [type |-> "string"]]
  /\ \A f \in DOMAIN t.function.parameters.properties.imageUrl :
       f # "format" =>
         /\ f \in DOMAIN w.function.parameters.properties.imageUrl
         /\ w.function.parameters.properties.imageUrl[f] =
              t.function.parameters.properties.imageUrl[f]
  /\ DOMAIN w.function.parameters.properties.imageUrl
       \subseteq DOMAIN t.function.parameters.properties.imageUrl

\* tool schemas were supplied to the running callModel
ToolsSupplied == CmInvoked /\ inputTools.defined /\ Len(inputTools.value) > 0

\* C14: when tool schemas are supplied to callModel, the caller's schema
\* objects are at every moment what they were at the call, and the tool list
\* of the request has one tool per supplied tool, in order: a function tool
\* whose imageUrl parameter is a string with a format constraint is sent
\* without that constraint and otherwise unchanged, every other tool is sent
\* as it is.
C14_ToolsPatchedOnWireOnly ==
  ToolsSupplied =>
    /\ tools = inputTools
    /\ requests # <<>> =>
         /\ requests[1].tools.defined
         /\ Len(requests[1].tools.value) = Len(inputTools.value)
         /\ \A i \in 1..Len(inputTools.value) :
              /\ inputTools.value[i] = ImageTool =>
                   requests[1].tools.value[i] = ImageToolSent
              /\ IF ConstrainedImageUrl(inputTools.value[i])
                 THEN FormatRemoved(inputTools.value[i],
                                    requests[1].tools.value[i])
                 ELSE requests[1].tools.value[i] = inputTools.value[i]

\* callModel has returned after a request that carried ImageTool without
\* the format and LinkTool as it was, the caller's list being untouched
C14_Witness ==
  /\ CmReturned
  /\ inputTools = Some(<<ImageTool, LinkTool>>)
  /\ tools = Some(<<ImageTool, LinkTool>>)
  /\ Len(requests) = 1
  /\ requests[1].tools = Some(<<ImageToolSent, LinkTool>>)

====
